---- MODULE Spec2Model ----
(***************************************************************************)
(* A model of src/app.py: the channel analyzer behind /api/analyze.        *)
(*                                                                         *)
(* Text is modelled as a sequence of one-character strings, so the string  *)
(* operations of the source (strip, split, replace, startswith, in) are    *)
(* computed rather than assumed.  Rendered texts of the report are TLA+    *)
(* strings built with ToString and \o.                                     *)
(***************************************************************************)
EXTENDS Integers, Sequences, FiniteSets, TLC

VARIABLES
    inputs,       \* api_analyze: the "channels" list of the request
    idx,          \* api_analyze: number of inputs the for loop has finished
    results,      \* api_analyze: results
    errors,       \* api_analyze: errors
    response,     \* what api_analyze returned ("none" while it runs)
    pc,           \* position inside api_analyze / analyze_channel_full
    cid,          \* analyze_channel_full: cid
    ch,           \* analyze_channel_full: ch (the channel profile)
    video_ids,    \* fetch_all_video_ids_from_playlist: ids
    pages,        \* fetch_all_video_ids_from_playlist: pages requested so far
    batch_i,      \* fetch_videos_metadata: i
    videos_meta,  \* fetch_videos_metadata: out
    calls,        \* the collaborator calls of the current channel, in order
    raised,       \* indices of inputs during whose analysis a collaborator raised
    arg,          \* argument of a helper called on its own
    ret           \* what that helper returned

vars == <<inputs, idx, results, errors, response, pc, cid, ch, video_ids,
          pages, batch_i, videos_meta, calls, raised, arg, ret>>

None == [kind |-> "None"]

(***************************************************************************)
(* Program constants                                                       *)
(***************************************************************************)
MAX_CHANNELS == 5
SHORTS_MAX_SECONDS == 60
BATCH_SIZE == 50
RECENT_DAYS == 30
SecondsPerDay == 86400

(***************************************************************************)
(* Bounds of the model                                                     *)
(***************************************************************************)
MaxBatchLen == 2      \* longest request
MaxPages == 2         \* pages of an uploads playlist
MaxVideos == 2        \* video records the platform returns for one channel
MaxBucketVideos == 2  \* longest list of records the bucketing is tried on
MaxScoreVideos == 3   \* longest list of records the scorer is tried on
MaxDurLen == 4        \* longest enumerated duration text
MaxMantissa == 1100   \* short_number is tried on m * 10^k, m up to this

(***************************************************************************)
(* Text helpers (Python str methods)                                       *)
(***************************************************************************)
SeqsUpTo(S, n) == UNION {[1..k -> S] : k \in 0..n}

Min(a, b) == IF a <= b THEN a ELSE b
Max(a, b) == IF a >= b THEN a ELSE b

startswith(s, p) == Len(s) >= Len(p) /\ SubSeq(s, 1, Len(p)) = p

\* str.find, 1-based; 0 when sub does not occur
find(s, sub) ==
    LET hits == {i \in 1..(Len(s) - Len(sub) + 1) : SubSeq(s, i, i + Len(sub) - 1) = sub}
    IN  IF hits = {} THEN 0 ELSE CHOOSE i \in hits : \A j \in hits : i <= j

contains(s, sub) == find(s, sub) # 0

\* s.split(sub)[0]
split_first(s, sub) ==
    IF contains(s, sub) THEN SubSeq(s, 1, find(s, sub) - 1) ELSE s

\* s.split(sub)[1], where sub occurs in s
split_second(s, sub) ==
    split_first(SubSeq(s, find(s, sub) + Len(sub), Len(s)), sub)

\* s.split(sub)[-1] for a one-character sub
split_last(s, sub) ==
    LET hits == {i \in 1..Len(s) : <<s[i]>> = sub}
    IN  IF hits = {} THEN s
        ELSE SubSeq(s, (CHOOSE i \in hits : \A j \in hits : i >= j) + 1, Len(s))

RECURSIVE lstrip(_)
lstrip(s) == IF s # <<>> /\ s[1] = " " THEN lstrip(Tail(s)) ELSE s

RECURSIVE rstrip(_, _)
rstrip(s, c) ==
    IF s # <<>> /\ s[Len(s)] = c THEN rstrip(SubSeq(s, 1, Len(s) - 1), c) ELSE s

strip(s) == rstrip(lstrip(s), " ")

\* s.replace(sub, ""): non-overlapping occurrences, left to right
RECURSIVE remove_all(_, _)
remove_all(s, sub) ==
    IF Len(s) < Len(sub) THEN s
    ELSE IF SubSeq(s, 1, Len(sub)) = sub
         THEN remove_all(SubSeq(s, Len(sub) + 1, Len(s)), sub)
         ELSE <<s[1]>> \o remove_all(Tail(s), sub)

(***************************************************************************)
(* parse_iso8601_duration_to_seconds                                       *)
(***************************************************************************)
DecimalDigits == {"0", "1", "2", "3", "4", "5", "6", "7", "8", "9"}

\* Characters for which str.isdigit() is true but int() raises ValueError
\* (superscripts and the like); "^2" stands for U+00B2.
NonDecimalDigits == {"^2"}

isdigit(c) == c \in DecimalDigits \cup NonDecimalDigits

DigitValue(c) ==
    CASE c = "0" -> 0 [] c = "1" -> 1 [] c = "2" -> 2 [] c = "3" -> 3
      [] c = "4" -> 4 [] c = "5" -> 5 [] c = "6" -> 6 [] c = "7" -> 7
      [] c = "8" -> 8 [] c = "9" -> 9

\* int(num) for a non-empty num of isdigit characters: a number, or ValueError
RECURSIVE int_value(_)
int_value(num) ==
    IF num = <<>> THEN 0
    ELSE 10 * int_value(SubSeq(num, 1, Len(num) - 1)) + DigitValue(num[Len(num)])

int_raises(num) == \E i \in 1..Len(num) : num[i] \in NonDecimalDigits

UnitSeconds(c) == CASE c = "H" -> 3600 [] c = "M" -> 60 [] c = "S" -> 1

\* the for loop: the characters of dur from position i on, with num and sec
RECURSIVE duration_scan(_, _, _, _)
duration_scan(dur, i, num, sec) ==
    IF i > Len(dur) THEN [ok |-> TRUE, value |-> sec]
    ELSE LET c == dur[i] IN
         IF isdigit(c) THEN duration_scan(dur, i + 1, Append(num, c), sec)
         ELSE IF num = <<>> THEN duration_scan(dur, i + 1, num, sec)
         ELSE IF c \in {"H", "M", "S"}
              THEN IF int_raises(num) THEN [ok |-> FALSE, value |-> "ValueError"]
                   ELSE duration_scan(dur, i + 1, <<>>, sec + int_value(num) * UnitSeconds(c))
              ELSE duration_scan(dur, i + 1, <<>>, sec)

parse_iso8601_duration_to_seconds(dur) ==
    IF dur = <<>> THEN [ok |-> TRUE, value |-> 0]
    ELSE duration_scan(remove_all(dur, <<"P", "T">>), 1, <<>>, 0)

(***************************************************************************)
(* short_number                                                            *)
(***************************************************************************)
Units == <<"", "K", "M", "B", "T">>

\* int(round(n / d)): round half to even; a tie x.5 is exact in binary
round_int(n, d) ==
    LET q == n \div d
        r == n % d
    IN  IF 2 * r > d THEN q + 1
        ELSE IF 2 * r < d THEN q
        ELSE IF q % 2 = 0 THEN q ELSE q + 1

\* round(n / d, 1) as <<whole, tenth>>, d a power of 1000.  A decimal tie x.y5
\* is exact in binary only for x.25 and x.75 (round half to even); at any
\* other tie the double nearest to x.y5 lies above or below it, which `up`
\* says.
round_tenth(n, d, up) ==
    LET q    == n \div d
        d10  == d \div 10
        t    == (n % d) \div d10
        rem  == (n % d) % d10
        more == IF 2 * rem > d10 THEN TRUE
                ELSE IF 2 * rem < d10 THEN FALSE
                ELSE IF t \in {2, 7} THEN t % 2 = 1
                ELSE up
        tt   == IF more THEN t + 1 ELSE t
    IN  IF tt = 10 THEN <<q + 1, 0>> ELSE <<q, tt>>

\* the for loop over the units: value = n / d, unit = Units[k]
RECURSIVE short_loop(_, _, _, _)
short_loop(n, k, d, up) ==
    IF k > Len(Units)
    THEN LET rt == round_tenth(n, d, up)
         IN [whole |-> rt[1], hasDec |-> TRUE, dec |-> rt[2], unit |-> "T"]
    ELSE IF n \div d < 1000
         THEN IF Units[k] = ""
              THEN [whole |-> n \div d, hasDec |-> FALSE, dec |-> 0, unit |-> ""]
              ELSE IF n \div d >= 100
                   THEN [whole |-> round_int(n, d), hasDec |-> FALSE, dec |-> 0,
                         unit |-> Units[k]]
                   ELSE LET rt == round_tenth(n, d, up)
                        IN [whole |-> rt[1], hasDec |-> TRUE, dec |-> rt[2],
                            unit |-> Units[k]]
         ELSE short_loop(n, k + 1, d * 1000, up)

\* the parts of the text short_number(n) returns, n an int
short_number_parts(n, up) ==
    IF n < 1000 THEN [whole |-> n, hasDec |-> FALSE, dec |-> 0, unit |-> ""]
    ELSE short_loop(n, 1, 1, up)

\* str(int) / the f-strings of short_number
Render(p) ==
    IF p.hasDec THEN ToString(p.whole) \o "." \o ToString(p.dec) \o p.unit
    ELSE ToString(p.whole) \o p.unit

short_number(n, up) == Render(short_number_parts(n, up))

(***************************************************************************)
(* extract_channel_from_input and the search lookup                        *)
(***************************************************************************)
ChannelUrlPrefix == <<"h", "t", "t", "p", "s", ":", "/", "/", "w", "w", "w", ".", "y", "o", "u", "t", "u", "b", "e", ".", "c", "o", "m", "/", "c", "h", "a", "n", "n", "e", "l", "/">>
SiteUrlPrefix == <<"h", "t", "t", "p", "s", ":", "/", "/", "w", "w", "w", ".", "y", "o", "u", "t", "u", "b", "e", ".", "c", "o", "m", "/">>
YoutubeCom == <<"y", "o", "u", "t", "u", "b", "e", ".", "c", "o", "m">>
ChannelPath == <<"/", "c", "h", "a", "n", "n", "e", "l", "/">>

\* Python truthiness of a str-or-None
truthy(x) == x # None /\ x # <<>>

extract_channel_from_input(inp) ==
    LET s == strip(IF truthy(inp) THEN inp ELSE <<>>) IN
    IF s = <<>> THEN [cid |-> None, canonical |-> None]
    ELSE IF startswith(s, <<"U", "C">>) /\ Len(s) > 20
         THEN [cid |-> s, canonical |-> ChannelUrlPrefix \o s]
    ELSE IF contains(s, YoutubeCom)
         THEN IF contains(s, ChannelPath)
              THEN LET id == split_first(split_first(split_second(s, ChannelPath),
                                                      <<"/">>), <<"?">>)
                   IN [cid |-> id, canonical |-> ChannelUrlPrefix \o id]
              ELSE [cid |-> None, canonical |-> rstrip(split_first(s, <<"?">>), "/")]
    ELSE IF startswith(s, <<"@">>)
         THEN [cid |-> None, canonical |-> SiteUrlPrefix \o s]
    ELSE [cid |-> None, canonical |-> s]

\* line 270: whether analyze_channel_full resolves the input by a search
needs_search(extracted) == ~truthy(extracted.cid)

\* line 271: canonical or channel_input
lookup_hint(extracted, channel_input) ==
    IF truthy(extracted.canonical) THEN extracted.canonical ELSE channel_input

\* line 150: the query of the channel search
search_query(hint) == split_last(strip(hint), <<"/">>)

(***************************************************************************)
(* Video records and time                                                  *)
(***************************************************************************)
\* datetime.now(timezone.utc), in seconds
Now == 10000000

\* line 306
cut == Now - RECENT_DAYS * SecondsPerDay

\* A publishedAt value is None or a text; of a text the model keeps what
\* datetime.fromisoformat makes of it: whether it accepts it, whether the
\* text carries a UTC offset (or "Z"), and the instant it names.
NoTimestamp == None
Garbage == [kind |-> "str", iso |-> FALSE, tz |-> FALSE, t |-> 0]
IsoText(tz, t) == [kind |-> "str", iso |-> TRUE, tz |-> tz, t |-> t]

\* line 312: datetime.fromisoformat(v["publishedAt"].replace("Z", "+00:00")),
\* "raises" standing for the AttributeError / ValueError the try catches
fromisoformat(publishedAt) ==
    IF publishedAt = None \/ ~publishedAt.iso THEN [raises |-> TRUE]
    ELSE [raises |-> FALSE, aware |-> publishedAt.tz, t |-> publishedAt.t]

\* line 284
is_short(v) == v.duration_seconds <= SHORTS_MAX_SECONDS

\* is_long with the threshold on both sides
is_long_from_threshold(v) == v.duration_seconds >= SHORTS_MAX_SECONDS

\* line 285
is_long(v) == v.duration_seconds > SHORTS_MAX_SECONDS

(***************************************************************************)
(* metadata_originality_analysis                                           *)
(* Ratios are kept as <<numerator, denominator>>; the score is computed in *)
(* exact arithmetic where the source uses floats, so the two can differ by *)
(* one where the exact score is a whole number.                            *)
(***************************************************************************)
desc_count(descs, d) == Cardinality({i \in 1..Len(descs) : descs[i] = d})

RECURSIVE SumOfCounts(_, _)
SumOfCounts(descs, i) ==
    IF i > Len(descs) THEN 0
    ELSE (IF descs[i] # <<>> /\ desc_count(descs, descs[i]) > 1
          THEN desc_count(descs, descs[i]) ELSE 0) + SumOfCounts(descs, i + 1)

\* dup_count summing the Counter values instead of counting the descriptions
dup_count_by_occurrences(descs) == SumOfCounts(descs, 1)

\* line 227: the descriptions counted as duplicated
dup_count(descs) ==
    Cardinality({i \in 1..Len(descs) : descs[i] # <<>> /\ desc_count(descs, descs[i]) > 1})

\* line 228
empty_count(descs) ==
    Cardinality({i \in 1..Len(descs) : descs[i] = <<>> \/ Len(descs[i]) < 10})

\* line 230
shorts_in(durations) ==
    Cardinality({i \in 1..Len(durations) : durations[i] <= SHORTS_MAX_SECONDS})

RECURSIVE Sum(_)
Sum(seq) == IF seq = <<>> THEN 0 ELSE seq[1] + Sum(Tail(seq))

RECURSIVE SumSquares(_)
SumSquares(seq) == IF seq = <<>> THEN 0 ELSE seq[1] * seq[1] + SumSquares(Tail(seq))

\* sqrt(m) <= y for integers m >= 0 and y, without squaring a large y
SqrtLeq(m, y) == y >= 0 /\ (y > 46340 \/ m <= y * y)

\* lines 236-241.  With n = max(1, N), S the sum and Q the sum of squares of
\* the durations: std_dur / (avg_dur + 1) = sqrt(n*Q - S*S) / (S + n), so
\*   score = 100 - pen / n - 10 * sqrt(rad) / den
\* with pen = 20*dup + 10*empty + 15*shorts, rad = n*Q - S*S, den = S + n.
\* score >= k  iff  sqrt(100 * rad * n * n) <= ((100 - k) * n - pen) * den.
score_at_least(k, n, pen, rad, den) ==
    SqrtLeq(100 * rad * n * n, ((100 - k) * n - pen) * den)

\* line 241: int(max(0, min(100, score)))
final_score(n, pen, rad, den) ==
    LET ks == {k \in 0..100 : score_at_least(k, n, pen, rad, den)}
    IN  IF ks = {} THEN 0 ELSE CHOOSE k \in ks : \A j \in ks : k >= j

metadata_originality_analysis(videos) ==
    LET N         == Len(videos)
        n         == Max(1, N)
        descs     == [i \in 1..N |-> strip(videos[i].description)]
        durations == [i \in 1..N |-> videos[i].duration_seconds]
        dup       == dup_count(descs)
        empty     == empty_count(descs)
        shorts    == shorts_in(durations)
        S         == Sum(durations)
        rad       == n * SumSquares(durations) - S * S
        den       == S + n
        pen       == 20 * dup + 10 * empty + 15 * shorts
        explanation ==
            (IF 10 * dup > 2 * n THEN <<"Duplicate descriptions detected.">> ELSE <<>>)
            \o (IF 10 * empty > 4 * n
                THEN <<"Many videos have empty descriptions.">> ELSE <<>>)
            \o (IF 100 * shorts > 85 * n
                THEN <<"Mostly shorts content - reused content risk.">> ELSE <<>>)
            \o (IF ~SqrtLeq(100 * rad, 7 * den)
                THEN <<"Durations too uniform - templated content.">> ELSE <<>>)
    IN  [score |-> final_score(n, pen, rad, den),
         explanation |-> IF explanation = <<>>
                         THEN <<"No reused-content signals detected.">> ELSE explanation,
         signals |-> [desc_dup_ratio |-> <<dup, n>>,
                      empty_desc_ratio |-> <<empty, n>>,
                      shorts_ratio |-> <<shorts, n>>,
                      dur_uniformity |-> [rad |-> rad, den |-> den]]]

(***************************************************************************)
(* analyze_channel_full, after the videos are fetched (lines 283-396)      *)
(***************************************************************************)
RECURSIVE SumField(_, _)
SumField(seq, f) == IF seq = <<>> THEN 0 ELSE seq[1][f] + SumField(Tail(seq), f)

shorts_of(videos) == SelectSeq(videos, is_short)
longs_of(videos) == SelectSeq(videos, is_long)

\* lines 311-314: the try around the parse of publishedAt
parse_fails(v) == fromisoformat(v.publishedAt).raises

\* line 316: dt >= cut raises TypeError when dt carries no UTC offset, as cut
\* does (an offset-naive datetime compared with an offset-aware one)
compare_raises(v) == ~parse_fails(v) /\ ~fromisoformat(v.publishedAt).aware

\* line 316: dt >= cut
is_recent(v) == ~parse_fails(v) /\ fromisoformat(v.publishedAt).t >= cut

shorts_30_of(videos) ==
    LET keep(v) == is_recent(v) /\ v.duration_seconds <= SHORTS_MAX_SECONDS
    IN  SelectSeq(videos, keep)

longs_30_of(videos) ==
    LET keep(v) == is_recent(v) /\ ~(v.duration_seconds <= SHORTS_MAX_SECONDS)
    IN  SelectSeq(videos, keep)

\* line 330: avg_duration(lst), as <<sum, count>> (0 for an empty list)
avg_duration(lst) ==
    IF lst # <<>> THEN <<SumField(lst, "duration_seconds"), Len(lst)>> ELSE <<0, 1>>

\* lines 335-336: the "if avg_short" of the conditional expression
avg_is_shown(avg) == avg[1] # 0

\* lines 335-336: f"{int(avg//60)}m {int(avg%60)}s" if avg else "N/A"
avg_human(avg) ==
    IF avg_is_shown(avg)
    THEN ToString((avg[1] \div avg[2]) \div 60) \o "m "
           \o ToString((avg[1] \div avg[2]) % 60) \o "s"
    ELSE "N/A"

\* lines 283-396: the report, or the TypeError of line 316.  Of the report
\* the model keeps the counts, sums, formatted numbers, average-duration
\* texts and the originality result.
build_report(profile, videos, up) ==
    IF \E i \in 1..Len(videos) : compare_raises(videos[i])
    THEN [raises |-> TRUE]
    ELSE
    LET shorts    == shorts_of(videos)
        longs     == longs_of(videos)
        shorts_30 == shorts_30_of(videos)
        longs_30  == longs_30_of(videos)
        orig      == metadata_originality_analysis(videos)
    IN  [raises |-> FALSE,
         report |->
          [channel_id |-> profile.channel_id,
           subscribers |-> profile.subscribers,
           subscribers_fmt |-> short_number(profile.subscribers, up),
           originality_score |-> orig.score,
           originality_explanation |-> orig.explanation,
           originality_signals |-> orig.signals,
           shorts_count |-> Len(shorts),
           videos_count |-> Len(longs),
           videos_scanned |-> Len(videos),
           total_shorts_views_lifetime |-> SumField(shorts, "views"),
           total_long_views_lifetime |-> SumField(longs, "views"),
           total_shorts_views_lifetime_fmt |-> short_number(SumField(shorts, "views"), up),
           total_long_views_lifetime_fmt |-> short_number(SumField(longs, "views"), up),
           shorts_30d_count |-> Len(shorts_30),
           videos_30d_count |-> Len(longs_30),
           total_shorts_views_30d |-> SumField(shorts_30, "views"),
           total_long_views_30d |-> SumField(longs_30, "views"),
           avg_short_duration_human |-> avg_human(avg_duration(shorts)),
           avg_long_duration_human |-> avg_human(avg_duration(longs))]]

(***************************************************************************)
(* The platform: what the collaborator calls can answer                    *)
(***************************************************************************)
FoundChannelId == <<"U", "C", "f", "o", "u", "n", "d", "8", "9", "0", "1", "2", "3", "4", "5", "6", "7", "8", "9", "0", "1", "2">>
UploadsPlaylist == <<"U", "U", "1">>

\* the number of video ids on one page of the uploads playlist (maxResults=50)
PageSizes == {0, 1, BATCH_SIZE}

LongDescription == <<"a", " ", "l", "o", "n", "g", " ", "o", "n", "e">>

\* items of a videos().list answer: contentDetails.duration is a text
WireVideos ==
    {[description |-> LongDescription, publishedAt |-> IsoText(TRUE, Now),
      views |-> 1000, duration |-> <<"P", "T", "4", "5", "S">>],
     [description |-> <<>>, publishedAt |-> IsoText(FALSE, Now),
      views |-> 2000, duration |-> <<"P", "T", "1", "M", "1", "S">>]}

\* lines 198-212: one item of the answer as a record of videos_meta
video_record(item) ==
    [description |-> item.description,
     publishedAt |-> item.publishedAt,
     views |-> item.views,
     duration_seconds |-> parse_iso8601_duration_to_seconds(item.duration).value]

(***************************************************************************)
(* api_analyze and analyze_channel_full, one action per collaborator call  *)
(***************************************************************************)
\* a collaborator call of the analysis of input idx + 1, and how it was answered
Call(op, what, answer) == [chan |-> idx + 1, op |-> op, what |-> what, answer |-> answer]

channel_input == inputs[idx + 1]

\* lines 459-461: the except of api_analyze
ServerError == [success |-> FALSE, error |-> "Server error"]

\* an exception leaves analyze_channel_full and the for loop
Abort ==
    /\ response' = ServerError
    /\ pc' = "done"
    /\ UNCHANGED <<idx, results, errors>>

\* lines 452-453
ReportError(message) ==
    /\ errors' = Append(errors, [channel |-> channel_input, error |-> message])
    /\ idx' = idx + 1
    /\ pc' = "loop"
    /\ UNCHANGED <<results, response>>

helper_vars == <<arg, ret>>

\* lines 450-451, 269-270: the loop takes the next input and parses it
NextChannel ==
    /\ pc = "loop"
    /\ idx < Min(Len(inputs), MAX_CHANNELS)
    /\ LET e == extract_channel_from_input(channel_input) IN
         /\ cid' = e.cid
         /\ pc' = IF needs_search(e) THEN "search" ELSE "getChannel"
    /\ calls' = <<>>
    /\ ch' = None /\ video_ids' = <<>> /\ pages' = 0 /\ batch_i' = 0
    /\ videos_meta' = <<>>
    /\ UNCHANGED <<inputs, idx, results, errors, response, raised, helper_vars>>

\* lines 271-273, 148-162: resolve_handle_to_channel_id
SearchChannel ==
    /\ pc = "search"
    /\ LET e == extract_channel_from_input(channel_input)
           q == search_query(lookup_hint(e, channel_input))
       IN  \E answer \in {"raises", "no items", "item"} :
         /\ calls' = Append(calls, Call("searchChannel", q, answer))
         /\ IF answer = "item"
            THEN /\ cid' = FoundChannelId
                 /\ pc' = "getChannel"
                 /\ UNCHANGED <<idx, results, errors, response>>
            ELSE /\ cid' = None
                 /\ ReportError("Could not resolve channel ID")
    /\ UNCHANGED <<inputs, ch, video_ids, pages, batch_i, videos_meta, raised,
                   helper_vars>>

\* after_profile without the "if uploads" of line 280
after_profile_always_lists(uploads) == "list"

\* line 280 and fetch_videos_metadata on no ids: nothing is requested
after_profile(uploads) == IF truthy(uploads) THEN "list" ELSE "assemble"

\* lines 275-280, 121-145: fetch_channel_basic
GetChannel ==
    /\ pc = "getChannel"
    /\ \E answer \in {"raises", "no items", "item"}, uploads \in {None, UploadsPlaylist} :
         CASE answer = "raises" ->
                /\ calls' = Append(calls, Call("getChannel", cid, "raises"))
                /\ Abort
                /\ raised' = raised \cup {idx + 1}
                /\ UNCHANGED ch
           [] answer = "no items" ->
                /\ calls' = Append(calls, Call("getChannel", cid, "no items"))
                /\ ReportError("Channel not found")
                /\ UNCHANGED <<ch, raised>>
           [] answer = "item" ->
                /\ calls' = Append(calls, Call("getChannel", cid,
                                                IF truthy(uploads) THEN "uploads"
                                                ELSE "no uploads"))
                /\ ch' = [channel_id |-> cid, subscribers |-> 1500,
                          uploads_playlist |-> uploads]
                /\ pc' = after_profile(uploads)
                /\ UNCHANGED <<idx, results, errors, response, raised>>
    /\ UNCHANGED <<inputs, cid, video_ids, pages, batch_i, videos_meta, helper_vars>>

\* lines 281, 191: fetch_videos_metadata requests a batch only if there are ids
after_listing(ids) == IF Len(ids) > 0 THEN "videos" ELSE "assemble"

\* lines 165-186: one turn of the while loop of fetch_all_video_ids_from_playlist
ListPlaylistItems ==
    /\ pc = "list"
    /\ \E answer \in {"raises", "page"}, size \in PageSizes, more \in BOOLEAN :
         /\ calls' = Append(calls, Call("listPlaylistItems", pages + 1, answer))
         /\ CASE answer = "raises" ->
                /\ Abort
                /\ raised' = raised \cup {idx + 1}
                /\ UNCHANGED <<video_ids, pages>>
           [] answer = "page" ->
                /\ more => pages + 1 < MaxPages
                /\ video_ids' = video_ids \o [i \in 1..size |-> Len(video_ids) + i]
                /\ pages' = pages + 1
                /\ pc' = IF more THEN "list" ELSE after_listing(video_ids')
                /\ UNCHANGED <<idx, results, errors, response, raised>>
    /\ UNCHANGED <<inputs, cid, ch, batch_i, videos_meta, helper_vars>>

\* line 192: batch = ids[i:i+BATCH_SIZE]
batch_of(ids, i) == SubSeq(ids, i + 1, Min(i + BATCH_SIZE, Len(ids)))

\* lines 189-214: one turn of the for loop of fetch_videos_metadata.  The
\* answer omits ids the platform no longer has; the model keeps at most
\* MaxVideos records per channel.
GetVideos ==
    /\ pc = "videos"
    /\ \E answer \in {"raises", "items"} :
         /\ calls' = Append(calls, Call("getVideos", Len(batch_of(video_ids, batch_i)),
                                         answer))
         /\ CASE answer = "raises" ->
                /\ Abort
                /\ raised' = raised \cup {idx + 1}
                /\ UNCHANGED <<batch_i, videos_meta>>
           [] answer = "items" ->
                \E items \in SeqsUpTo(WireVideos,
                                      Min(Len(batch_of(video_ids, batch_i)),
                                          MaxVideos - Len(videos_meta))) :
                  /\ videos_meta' = videos_meta
                                      \o [i \in 1..Len(items) |-> video_record(items[i])]
                  /\ batch_i' = batch_i + BATCH_SIZE
                  /\ pc' = IF batch_i' < Len(video_ids) THEN "videos" ELSE "assemble"
                  /\ UNCHANGED <<idx, results, errors, response, raised>>
    /\ UNCHANGED <<inputs, cid, ch, video_ids, pages, helper_vars>>

\* lines 283-396 and 452-455: the report is built and filed
Assemble ==
    /\ pc = "assemble"
    /\ \E up \in BOOLEAN :
         LET built == build_report(ch, videos_meta, up) IN
         IF built.raises
         THEN Abort
         ELSE /\ results' = Append(results, built.report)
              /\ idx' = idx + 1
              /\ pc' = "loop"
              /\ UNCHANGED <<errors, response>>
    /\ UNCHANGED <<inputs, cid, ch, video_ids, pages, batch_i, videos_meta, calls,
                   raised, helper_vars>>

\* line 457: the loop is over
Respond ==
    /\ pc = "loop"
    /\ idx = Min(Len(inputs), MAX_CHANNELS)
    /\ response' = [success |-> TRUE, results |-> results, errors |-> errors]
    /\ pc' = "done"
    /\ UNCHANGED <<inputs, idx, results, errors, cid, ch, video_ids, pages, batch_i,
                   videos_meta, calls, raised, helper_vars>>

\* the raw inputs a request is made of
BlankInput == <<" ", " ">>
LiteralId == <<"U", "C", "1", "2", "3", "4", "5", "6", "7", "8", "9", "0", "1", "2", "3", "4", "5", "6", "7", "8", "9">>
ChannelUrl == <<"y", "o", "u", "t", "u", "b", "e", ".", "c", "o", "m", "/", "c", "h", "a", "n", "n", "e", "l", "/", "U", "C", "a", "b", "c", "/", "v", "i", "d", "e", "o", "s", "?", "x", "=", "1">>
EmptyIdUrl == <<"y", "o", "u", "t", "u", "b", "e", ".", "c", "o", "m", "/", "c", "h", "a", "n", "n", "e", "l", "/">>
HandleUrl == <<"y", "o", "u", "t", "u", "b", "e", ".", "c", "o", "m", "/", "@", "h", "i", "/", "?", "x">>
Handle == <<"@", "h", "i">>
BareName == <<"n", "a", "m", "e">>
ShortUc == <<"U", "C", "x">>

RawInputs ==
    {<<>>, BlankInput, LiteralId, ChannelUrl, EmptyIdUrl, HandleUrl, Handle, BareName,
     ShortUc}

Init ==
    /\ inputs \in SeqsUpTo(RawInputs, MaxBatchLen)
    /\ idx = 0 /\ results = <<>> /\ errors = <<>> /\ response = None
    /\ pc = "loop"
    /\ cid = None /\ ch = None /\ video_ids = <<>> /\ pages = 0 /\ batch_i = 0
    /\ videos_meta = <<>> /\ calls = <<>> /\ raised = {}
    /\ arg = None /\ ret = None

Next ==
    \/ NextChannel
    \/ SearchChannel
    \/ GetChannel
    \/ ListPlaylistItems
    \/ GetVideos
    \/ Assemble
    \/ Respond

Spec == Init /\ [][Next]_vars

\* a request of one channel
InitChannel ==
    /\ inputs \in {<<r>> : r \in RawInputs}
    /\ idx = 0 /\ results = <<>> /\ errors = <<>> /\ response = None
    /\ pc = "loop"
    /\ cid = None /\ ch = None /\ video_ids = <<>> /\ pages = 0 /\ batch_i = 0
    /\ videos_meta = <<>> /\ calls = <<>> /\ raised = {}
    /\ arg = None /\ ret = None

SpecChannel == InitChannel /\ [][Next]_vars

(***************************************************************************)
(* The analysis of fetched videos on its own: analyze_channel_full at      *)
(* line 283, for every list of video records up to a length                *)
(***************************************************************************)
Timestamps ==
    {NoTimestamp, Garbage, IsoText(FALSE, Now), IsoText(TRUE, cut - 1),
     IsoText(TRUE, cut), IsoText(TRUE, Now)}

Durations == {0, SHORTS_MAX_SECONDS, SHORTS_MAX_SECONDS + 1, 200}

BucketVideos ==
    [description : {LongDescription}, publishedAt : Timestamps, views : {1000},
     duration_seconds : Durations]

\* analyze_channel_full at line 283 with `videos` fetched for LiteralId
Fetched(videos) ==
    /\ inputs = <<LiteralId>>
    /\ idx = 0 /\ results = <<>> /\ errors = <<>> /\ response = None
    /\ pc = "assemble"
    /\ cid = LiteralId
    /\ ch = [channel_id |-> LiteralId, subscribers |-> 1500,
             uploads_playlist |-> UploadsPlaylist]
    /\ video_ids = [i \in 1..Len(videos) |-> i]
    /\ pages = 1
    /\ batch_i = IF videos = <<>> THEN 0 ELSE BATCH_SIZE
    /\ videos_meta = videos
    /\ calls = <<[chan |-> 1, op |-> "getChannel", what |-> LiteralId, answer |-> "uploads"],
                 [chan |-> 1, op |-> "listPlaylistItems", what |-> 1, answer |-> "page"]>>
               \o (IF videos = <<>> THEN <<>>
                   ELSE <<[chan |-> 1, op |-> "getVideos", what |-> Len(videos),
                           answer |-> "items"]>>)
    /\ raised = {}
    /\ arg = None /\ ret = None

InitBucket == \E videos \in SeqsUpTo(BucketVideos, MaxBucketVideos) : Fetched(videos)

NextAssemble == Assemble \/ Respond

SpecBucket == InitBucket /\ [][NextAssemble]_vars

(***************************************************************************)
(* The helpers called on their own                                         *)
(***************************************************************************)
RequestIdle ==
    /\ inputs = <<>> /\ idx = 0 /\ results = <<>> /\ errors = <<>>
    /\ response = None /\ cid = None /\ ch = None /\ video_ids = <<>>
    /\ pages = 0 /\ batch_i = 0 /\ videos_meta = <<>> /\ calls = <<>>
    /\ raised = {}

request_vars == <<inputs, idx, results, errors, response, cid, ch, video_ids,
                  pages, batch_i, videos_meta, calls, raised>>

DurationAlphabet == {"P", "T", "H", "M", "S", "X", "^2", "1", "2"}

DurationInputs ==
    SeqsUpTo(DurationAlphabet, MaxDurLen)
      \cup {<<"P", "T", "1", "H", "2", "M", "3", "S">>, <<"P", "T", "9", "0", "S">>}

InitDuration ==
    /\ RequestIdle
    /\ pc = "call"
    /\ arg \in DurationInputs
    /\ ret = None

CallParseDuration ==
    /\ pc = "call"
    /\ ret' = parse_iso8601_duration_to_seconds(arg)
    /\ pc' = "returned"
    /\ UNCHANGED <<arg, request_vars>>

NextDuration == CallParseDuration

SpecDuration == InitDuration /\ [][NextDuration]_vars

ShortScales == {1, 10, 100, 1000, 10000, 100000, 1000000}

ShortInputs == {m * s : m \in 0..MaxMantissa, s \in ShortScales}

InitShort ==
    /\ RequestIdle
    /\ pc = "call"
    /\ arg \in ShortInputs
    /\ ret = None

CallShortNumber ==
    /\ pc = "call"
    /\ \E up \in BOOLEAN :
         ret' = [text |-> short_number(arg, up), parts |-> short_number_parts(arg, up)]
    /\ pc' = "returned"
    /\ UNCHANGED <<arg, request_vars>>

NextShort == CallShortNumber

SpecShort == InitShort /\ [][NextShort]_vars

Descriptions ==
    {<<" ">>, <<"s", "h", "o", "r", "t">>, LongDescription,
     <<" ">> \o LongDescription \o <<" ">>, <<"a", "n", "o", "t", "h", "e", "r", " ", "o", "n", "e">>}

ScoreDurations == {0, SHORTS_MAX_SECONDS + 1, 200}

ScoreVideos ==
    [description : Descriptions, publishedAt : {IsoText(TRUE, Now)}, views : {1000},
     duration_seconds : ScoreDurations]

InitScore ==
    /\ RequestIdle
    /\ pc = "call"
    /\ arg \in SeqsUpTo(ScoreVideos, MaxScoreVideos)
    /\ ret = None

CallOriginality ==
    /\ pc = "call"
    /\ ret' = metadata_originality_analysis(arg)
    /\ pc' = "returned"
    /\ UNCHANGED <<arg, request_vars>>

NextScore == CallOriginality

SpecScore == InitScore /\ [][NextScore]_vars

(***************************************************************************)
(* C1, C2: the batch                                                       *)
(***************************************************************************)
Processed == Min(Len(inputs), MAX_CHANNELS)

\* C1: a transport failure of getChannel, listPlaylistItems or getVideos
\* during one channel's analysis becomes one {channel, error} entry for that
\* channel; the request still succeeds, with the other channels' reports.
C1_TransportFailureStaysInChannel ==
    (pc = "done" /\ raised # {}) =>
        /\ response.success
        /\ Len(response.results) + Len(response.errors) = Processed
        /\ \A k \in raised :
             \E i \in 1..Len(response.errors) : response.errors[i].channel = inputs[k]

\* C2: when no collaborator call raises, every input of the batch ends in
\* exactly one of results and errors, so |results| + |errors| is the batch
\* length and every error entry names an input.
C2_EveryInputInOneList ==
    (pc = "done" /\ raised = {}) =>
        /\ response.success
        /\ Len(response.results) + Len(response.errors) = Len(inputs)
        /\ \A i \in 1..Len(response.errors) :
             \E k \in 1..Len(inputs) : response.errors[i].channel = inputs[k]

(***************************************************************************)
(* C3, C9: the collaborator calls of one analysis                          *)
(***************************************************************************)
\* C3: for an empty or all-whitespace input no collaborator call is issued.
C3_BlankInputCallsNothing ==
    \A i \in 1..Len(calls) : strip(inputs[calls[i].chan]) # <<>>

Rank(op) ==
    CASE op = "searchChannel" -> 1
      [] op = "getChannel" -> 2
      [] op = "listPlaylistItems" -> 3
      [] op = "getVideos" -> 4

CallsOf(op) == {i \in 1..Len(calls) : calls[i].op = op}

\* C9: the calls of one analysis come in the order searchChannel, getChannel,
\* listPlaylistItems (one per page), getVideos (one per batch); searchChannel
\* only when the input did not parse to a literal id; no call follows an
\* unresolved search, an absent profile or a profile without uploads
\* playlist, and the last of these still yields a report of zero videos.
C9_CallOrderAndFailFast ==
    /\ \A i, j \in 1..Len(calls) :
         i < j => /\ Rank(calls[i].op) <= Rank(calls[j].op)
                  /\ Rank(calls[i].op) <= 2 => Rank(calls[i].op) < Rank(calls[j].op)
    /\ \A i \in CallsOf("searchChannel") :
         ~truthy(extract_channel_from_input(inputs[calls[i].chan]).cid)
    /\ \A i \in 1..Len(calls) :
         calls[i].answer \in {"raises", "no items", "no uploads"} => i = Len(calls)
    /\ \A i \in CallsOf("listPlaylistItems") :
         calls[i].what = Cardinality({j \in CallsOf("listPlaylistItems") : j <= i})
    /\ \A i \in CallsOf("getVideos") : calls[i].what \in 1..BATCH_SIZE
    /\ pc = "assemble" =>
         Cardinality(CallsOf("getVideos")) = (Len(video_ids) + BATCH_SIZE - 1) \div BATCH_SIZE
    /\ (pc \in {"loop", "done"} /\ calls # <<>> /\ calls[Len(calls)].answer = "no uploads") =>
         /\ response # ServerError
         /\ results # <<>>
         /\ results[Len(results)].videos_scanned = 0
         /\ results[Len(results)].channel_id = calls[Len(calls)].what

\* a searched channel with two pages of ids fetched in two batches
C9_Witness ==
    /\ pc = "done"
    /\ response.success
    /\ [i \in 1..Len(calls) |-> calls[i].op]
         = <<"searchChannel", "getChannel", "listPlaylistItems", "listPlaylistItems",
             "getVideos", "getVideos">>

(***************************************************************************)
(* C4: the originality scorer                                              *)
(***************************************************************************)
InUnit(ratio) == 0 <= ratio[1] /\ ratio[1] <= ratio[2] /\ ratio[2] > 0

\* C4: for every list of video records the three ratios lie in [0,1] and the
\* score is an integer in [0,100].
C4_RatiosAndScoreBounded ==
    pc = "returned" =>
        /\ InUnit(ret.signals.desc_dup_ratio)
        /\ InUnit(ret.signals.empty_desc_ratio)
        /\ InUnit(ret.signals.shorts_ratio)
        /\ ret.score \in 0..100

\* every description duplicated, and a score the penalties have lowered
C4_Witness ==
    /\ pc = "returned"
    /\ Len(arg) >= 2
    /\ ret.signals.desc_dup_ratio = <<Len(arg), Len(arg)>>
    /\ ret.score < 100

(***************************************************************************)
(* C5, C6, C10: the buckets of a report                                    *)
(***************************************************************************)
\* C5: in every report shorts_count + videos_count = videos_scanned.
C5_SplitIsPartition ==
    \A i \in 1..Len(results) :
        results[i].shorts_count + results[i].videos_count = results[i].videos_scanned

\* a report with a video on each side of the split
C5_Witness ==
    /\ results # <<>>
    /\ results[1].shorts_count >= 1
    /\ results[1].videos_count >= 1

AnalysisOver == pc \in {"loop", "done"}

\* a timestamp the platform's text states: any text fromisoformat accepts
Interpretable(v) == v.publishedAt # None /\ v.publishedAt.iso

InWindow(v) == Interpretable(v) /\ v.publishedAt.t >= cut

\* C6: a video is in a recent bucket iff its timestamp can be interpreted and
\* is >= now - 30 days; a video whose timestamp is absent or cannot be
\* interpreted is left out of the recent buckets only, and the analysis
\* still completes with a report.
C6_RecentBucketsAsSpecified ==
    AnalysisOver =>
        /\ results # <<>>
        /\ results[1].shorts_30d_count
             = Cardinality({i \in 1..Len(videos_meta) :
                              InWindow(videos_meta[i]) /\ is_short(videos_meta[i])})
        /\ results[1].videos_30d_count
             = Cardinality({i \in 1..Len(videos_meta) :
                              InWindow(videos_meta[i]) /\ ~is_short(videos_meta[i])})
        /\ results[1].videos_scanned = Len(videos_meta)

\* floor(avg / 60) and floor(avg mod 60) of the mean duration of a split
MeanText(split) ==
    LET mean == SumField(split, "duration_seconds") \div Len(split)
    IN  ToString(mean \div 60) \o "m " \o ToString(mean % 60) \o "s"

\* C10: the average-duration text of a split is "N/A" iff the split is empty,
\* and "Xm Ys" of the mean duration otherwise ("0m 0s" when all are 0).
C10_AverageTextAsSpecified ==
    (AnalysisOver /\ results # <<>>) =>
        /\ results[1].avg_short_duration_human
             = IF shorts_of(videos_meta) = <<>> THEN "N/A"
               ELSE MeanText(shorts_of(videos_meta))
        /\ results[1].avg_long_duration_human
             = IF longs_of(videos_meta) = <<>> THEN "N/A"
               ELSE MeanText(longs_of(videos_meta))

(***************************************************************************)
(* C7 and C8: the formatters as the specification words them               *)
(***************************************************************************)
\* the number of divisions by 1000 that bring n below 1000
RECURSIVE Divisions(_)
Divisions(n) == IF n < 1000 THEN 0 ELSE 1 + Divisions(n \div 1000)

RECURSIVE Pow1000(_)
Pow1000(k) == IF k = 0 THEN 1 ELSE 1000 * Pow1000(k - 1)

\* C7: shortNumber(n) is n unchanged below 1000; otherwise the value scaled
\* below 1000 with the matching unit, no decimal when the scaled value is at
\* least 100 and one decimal otherwise, the printed number always below 1000;
\* shortNumber(999) = "999", (250) = "250", (1500) = "1.5K", (1000000) = "1M".
C7_ShortNumberAsSpecified ==
    pc = "returned" =>
        /\ arg < 1000 => ret.text = ToString(arg)
        /\ arg >= 1000 =>
              /\ ret.parts.unit = Units[Divisions(arg) + 1]
              /\ ret.parts.whole < 1000
              /\ ret.parts.hasDec = (arg \div Pow1000(Divisions(arg)) < 100)
        /\ arg = 999 => ret.text = "999"
        /\ arg = 250 => ret.text = "250"
        /\ arg = 1500 => ret.text = "1.5K"
        /\ arg = 1000000 => ret.text = "1M"

\* the scan as the specification words it: a leading "PT" is stripped, digits
\* accumulate, a unit after a non-empty buffer adds and clears, everything else
\* leaves the total and the buffer as they were
RECURSIVE SpecifiedScan(_, _, _, _)
SpecifiedScan(dur, i, num, sec) ==
    IF i > Len(dur) THEN sec
    ELSE LET c == dur[i] IN
         IF c \in DecimalDigits THEN SpecifiedScan(dur, i + 1, Append(num, c), sec)
         ELSE IF c \in {"H", "M", "S"} /\ num # <<>>
              THEN SpecifiedScan(dur, i + 1, <<>>, sec + int_value(num) * UnitSeconds(c))
              ELSE SpecifiedScan(dur, i + 1, num, sec)

SpecifiedDuration(dur) ==
    SpecifiedScan(IF startswith(dur, <<"P", "T">>) THEN SubSeq(dur, 3, Len(dur)) ELSE dur,
                  1, <<>>, 0)

\* C8: parseDuration never fails and returns the result of the specified scan;
\* parseDuration("") = 0, ("PT1H2M3S") = 3723, ("PT90S") = 90.
C8_ParseDurationAsSpecified ==
    pc = "returned" =>
        /\ ret.ok
        /\ ret.value = SpecifiedDuration(arg)
        /\ arg = <<>> => ret.value = 0
        /\ arg = <<"P", "T", "1", "H", "2", "M", "3", "S">> => ret.value = 3723
        /\ arg = <<"P", "T", "9", "0", "S">> => ret.value = 90

====
